---- MODULE Spec2Model ----
(***************************************************************************)
(* Model of the two scripts of the repository:                             *)
(*   scripts/categorize-polymarket-traders.py  (the Category Fetcher)      *)
(*   scripts/crawl-polymarket-traders.py       (the Filtered Crawler)      *)
(* The remote endpoint is the environment: each request is answered by a   *)
(* failure (transport or HTTP error) or by a data array of trader records. *)
(* Python dicts keep insertion order; they are modelled as sequences of    *)
(* <<key, value>> pairs.  JSON scalars are carried as their literal text,  *)
(* since the scripts only regroup the values and never compute with them.  *)
(* Progress lines on standard output are not modelled; the KeyError that   *)
(* formatting a summary line raises is.                                    *)
(***************************************************************************)
EXTENDS Naturals, Sequences, FiniteSets

\* ---------------------------------------------------------------- bounds
\* number of entries of CATEGORIES that the model iterates over
NumCategories == 3
\* records the mocked endpoint hands out in one Category Fetcher run
MaxCatRecords == 3
\* records the mocked endpoint hands out in one crawl
MaxCrawlRecords == 6
\* page_size argument of crawl_traders (the script's default is 100)
PageSize == 2

\* ------------------------------------------------------ program constants
\* traders[:5] of the crawler's summary
TopN == 5

AllCategories ==
  << "Sports", "Politics", "Crypto", "Soccer", "Basketball", "NFL",
     "Tennis", "Trump", "Elections", "Bitcoin", "Ethereum" >>

CATEGORIES == SubSeq(AllCategories, 1, NumCategories)

\* tag of the crawler's requests
CrawlTag == "Overall"

\* keys of a trader record, in the order the endpoint sends them
FieldOrder ==
  << "trader", "trader_name", "overall_gain", "win_rate",
     "total_positions", "rank" >>

\* keys the crawler's summary line reads (lines 94-95)
CrawlSummaryKeys ==
  { "trader_name", "trader", "overall_gain", "win_rate", "total_positions" }

\* keys the fetcher's summary line reads from the top record (line 78)
CatSummaryKeys == { "trader_name", "overall_gain", "win_rate" }

\* keys read from every record when its index entry is built (lines 92-96)
EntryKeys == { "overall_gain", "win_rate", "total_positions" }

\* the keys the endpoint documents as always present
ExpectedKeys ==
  { "trader", "trader_name", "overall_gain", "win_rate", "total_positions" }

\* output files
ByCategoryFile == "traders-by-category.json"
LookupFile == "traders-category-lookup.json"
TradersFile == "traders.json"
FileNames == { ByCategoryFile, LookupFile, TradersFile }

\* ------------------------------------------------ records of the endpoint
RecAlice ==
  [ trader |-> "0xa1", trader_name |-> "alice", overall_gain |-> "1500.5",
    win_rate |-> "0.7", total_positions |-> "40", rank |-> "1" ]
RecBob ==
  [ trader |-> "0xb2", trader_name |-> "bob", overall_gain |-> "800",
    win_rate |-> "0.9", total_positions |-> "31" ]
\* malformed: no trader_name
RecNoName ==
  [ trader |-> "0xa1", overall_gain |-> "900", win_rate |-> "0.8",
    total_positions |-> "35", rank |-> "2" ]
\* malformed: no total_positions
RecNoPositions ==
  [ trader |-> "0xb2", trader_name |-> "bob", overall_gain |-> "10",
    win_rate |-> "0.5", rank |-> "7" ]

\* malformed: no trader
RecNoTrader ==
  [ trader_name |-> "carol", overall_gain |-> "77", win_rate |-> "0.6",
    total_positions |-> "50", rank |-> "3" ]

\* the records the mocked endpoint draws its answers from
CatRecords == { RecAlice, RecBob, RecNoName, RecNoPositions, RecNoTrader }
CrawlRecords == { RecAlice, RecBob, RecNoPositions }

SeqsUpTo(S, n) == UNION { [1..k -> S] : k \in 0..n }

\* a response of the endpoint: a failure, or a 2xx body with a data array
FailResponse == [ ok |-> FALSE, data |-> << >> ]
OkResponse(d) == [ ok |-> TRUE, data |-> d ]

Min(a, b) == IF a < b THEN a ELSE b

\* ------------------------------------------------------- ordered dicts
EmptyDict == << >>
DictKeys(d) == [ n \in 1..Len(d) |-> d[n][1] ]
DictHas(d, k) == \E n \in 1..Len(d) : d[n][1] = k
DictGet(d, k) == d[CHOOSE n \in 1..Len(d) : d[n][1] = k][2]
\* d[k] = v : an existing key keeps its position, a new key goes last
DictSet(d, k, v) ==
  IF DictHas(d, k)
    THEN [ n \in 1..Len(d) |-> IF d[n][1] = k THEN << k, v >> ELSE d[n] ]
    ELSE Append(d, << k, v >>)

Has(t, k) == k \in DOMAIN t
HasAll(t, ks) == \A k \in ks : Has(t, k)

\* ------------------------------------------ categorize-polymarket-traders
\* fetch_traders_by_category: the value returned for a response, and whether
\* an exception leaves the function (the except clause catches every
\* RequestException, so none does)
\* variant: the except clause is missing, a failed request raises
FetchReraising(resp) ==
  [ raised |-> ~resp.ok, value |-> IF resp.ok THEN resp.data ELSE << >> ]

fetch_traders_by_category(resp) ==
  [ raised |-> FALSE, value |-> IF resp.ok THEN resp.data ELSE << >> ]

\* the summary loop raises KeyError when the top record of a non-empty
\* category lacks a key of the summary line
SummaryRaises(cat) ==
  \E n \in 1..Len(cat) :
    /\ cat[n][2] # << >>
    /\ ~HasAll(cat[n][2][1], CatSummaryKeys)

\* variant: the entry of an address is created anew for every record
NeedsInitAlways(tc, addr) == TRUE

\* `addr not in trader_categories`
NeedsInit(tc, addr) == ~DictHas(tc, addr)

\* the value stored under ['categories'][category]; a missing rank is None
Entry(t) ==
  [ pnl |-> t.overall_gain, win_rate |-> t.win_rate,
    positions |-> t.total_positions,
    rank |-> IF Has(t, "rank") THEN t.rank ELSE "null" ]

\* body of the inner loop of the index construction for one record; st.ok
\* turns FALSE where a KeyError is raised, st.tc is the dict at that moment
AddRecord(st, category, t) ==
  IF ~st.ok THEN st
  ELSE IF ~Has(t, "trader") THEN [ st EXCEPT !.ok = FALSE ]
  ELSE IF NeedsInit(st.tc, t.trader) /\ ~Has(t, "trader_name")
    THEN [ st EXCEPT !.ok = FALSE ]
  ELSE
    LET addr == t.trader
        tc1 == IF NeedsInit(st.tc, addr)
                 THEN DictSet(st.tc, addr,
                        [ trader_name |-> t.trader_name,
                          categories |-> EmptyDict ])
                 ELSE st.tc
    IN IF ~HasAll(t, EntryKeys) THEN [ tc |-> tc1, ok |-> FALSE ]
       ELSE [ tc |-> DictSet(tc1, addr,
                       [ DictGet(tc1, addr) EXCEPT
                           !.categories = DictSet(@, category, Entry(t)) ]),
              ok |-> TRUE ]

RECURSIVE AddRecords(_, _, _)
AddRecords(st, category, traders) ==
  IF traders = << >> THEN st
  ELSE AddRecords(AddRecord(st, category, Head(traders)), category,
                  Tail(traders))

RECURSIVE AddCategories(_, _)
AddCategories(st, items) ==
  IF items = << >> THEN st
  ELSE AddCategories(AddRecords(st, Head(items)[1], Head(items)[2]),
                     Tail(items))

\* the two nested loops that derive trader_categories from categorized
BuildLookup(cat) == AddCategories([ tc |-> EmptyDict, ok |-> TRUE ], cat)

\* ------------------------------------------------------- json.dump
\* The text is a sequence of tokens; whitespace of indent=2 is left out.
RECURSIVE Join(_)
Join(parts) ==
  IF parts = << >> THEN << >>
  ELSE IF Len(parts) = 1 THEN parts[1]
  ELSE parts[1] \o << "," >> \o Join(Tail(parts))

PresentFields(t) == SelectSeq(FieldOrder, LAMBDA k : Has(t, k))

DumpRecord(t) ==
  LET ks == PresentFields(t)
  IN << "{" >> \o Join([ n \in 1..Len(ks) |-> << ks[n], ":", t[ks[n]] >> ])
       \o << "}" >>

DumpList(traders) ==
  << "[" >> \o Join([ n \in 1..Len(traders) |-> DumpRecord(traders[n]) ])
    \o << "]" >>

DumpCategorized(cat) ==
  << "{" >>
    \o Join([ n \in 1..Len(cat) |-> << cat[n][1], ":" >> \o DumpList(cat[n][2]) ])
    \o << "}" >>

DumpEntry(e) ==
  << "{", "pnl", ":", e.pnl, ",", "win_rate", ":", e.win_rate, ",",
     "positions", ":", e.positions, ",", "rank", ":", e.rank, "}" >>

DumpCategories(cs) ==
  << "{" >>
    \o Join([ n \in 1..Len(cs) |-> << cs[n][1], ":" >> \o DumpEntry(cs[n][2]) ])
    \o << "}" >>

DumpLookup(tc) ==
  << "{" >>
    \o Join([ n \in 1..Len(tc) |->
               << tc[n][1], ":", "{", "trader_name", ":",
                  tc[n][2].trader_name, ",", "categories", ":" >>
                 \o DumpCategories(tc[n][2].categories) \o << "}" >> ])
    \o << "}" >>

\* a file that does not exist
NoFile == << >>

\* variant: the file is opened in append mode
AppendText(old, text) == old \o text

\* variant: the dump is skipped
KeepText(old, text) == old

\* open(path, 'w') followed by json.dump: the old content is replaced
WriteText(old, text) == text

\* ----------------------------------------------- crawl-polymarket-traders
\* variant: a page of exactly page_size records counts as the last one
LastPageInclusive(traders) == Len(traders) <= PageSize

\* `len(traders) < page_size`
LastPage(traders) == Len(traders) < PageSize

\* variant: the short page is tested before its records are appended
CrawlStepDropLast(all, pg, resp) ==
  IF ~resp.ok \/ resp.data = << >> \/ Len(resp.data) < PageSize
    THEN [ all |-> all, page |-> pg, stop |-> TRUE, raised |-> FALSE ]
    ELSE [ all |-> all \o resp.data, page |-> pg + 1, stop |-> FALSE,
           raised |-> FALSE ]

\* variant: a failed request discards what was accumulated
CrawlStepDiscard(all, pg, resp) ==
  IF ~resp.ok
    THEN [ all |-> << >>, page |-> pg, stop |-> TRUE, raised |-> FALSE ]
  ELSE IF resp.data = << >>
    THEN [ all |-> all, page |-> pg, stop |-> TRUE, raised |-> FALSE ]
  ELSE [ all |-> all \o resp.data,
         page |-> IF Len(resp.data) < PageSize THEN pg ELSE pg + 1,
         stop |-> Len(resp.data) < PageSize, raised |-> FALSE ]

\* variant: the loop gives up after two pages
CrawlStepCapped(all, pg, resp) ==
  IF ~resp.ok \/ resp.data = << >>
    THEN [ all |-> all, page |-> pg, stop |-> TRUE, raised |-> FALSE ]
  ELSE IF Len(resp.data) < PageSize \/ pg >= 2
    THEN [ all |-> all \o resp.data, page |-> pg, stop |-> TRUE,
           raised |-> FALSE ]
  ELSE [ all |-> all \o resp.data, page |-> pg + 1, stop |-> FALSE,
         raised |-> FALSE ]

\* variant: a failed request is posted again
CrawlStepRetry(all, pg, resp) ==
  IF ~resp.ok
    THEN [ all |-> all, page |-> pg, stop |-> FALSE, raised |-> FALSE ]
  ELSE IF resp.data = << >>
    THEN [ all |-> all, page |-> pg, stop |-> TRUE, raised |-> FALSE ]
  ELSE [ all |-> all \o resp.data,
         page |-> IF Len(resp.data) < PageSize THEN pg ELSE pg + 1,
         stop |-> Len(resp.data) < PageSize, raised |-> FALSE ]

\* one iteration of the while loop of crawl_traders on a response: the new
\* accumulator, the new page number, whether the loop is left, and whether
\* an exception leaves the function (the except clause catches every
\* RequestException, so none does)
CrawlStep(all, pg, resp) ==
  IF ~resp.ok
    THEN [ all |-> all, page |-> pg, stop |-> TRUE, raised |-> FALSE ]
  ELSE IF resp.data = << >>
    THEN [ all |-> all, page |-> pg, stop |-> TRUE, raised |-> FALSE ]
  ELSE IF LastPage(resp.data)
    THEN [ all |-> all \o resp.data, page |-> pg, stop |-> TRUE,
           raised |-> FALSE ]
  ELSE [ all |-> all \o resp.data, page |-> pg + 1, stop |-> FALSE,
         raised |-> FALSE ]

\* variant: only the first record is summarised
TopSliceFirst(traders) == SubSeq(traders, 1, Min(1, Len(traders)))

\* traders[:5]
TopSlice(traders) == SubSeq(traders, 1, Min(TopN, Len(traders)))

\* the summary loop of the crawler raises KeyError on a record of the slice
\* that lacks a key of the summary line
TopRaises(traders) ==
  \E n \in 1..Len(TopSlice(traders)) :
    ~HasAll(TopSlice(traders)[n], CrawlSummaryKeys)

\* ----------------------------------------------------------------- state
VARIABLES
  flow,               \* which script runs: "categorize" or "crawl"
  run,                \* 1 for the first run, 2 for the re-run
  pc,                 \* position in main; "done" is a normal end, "crashed"
                      \* an unhandled KeyError, "raised" an unhandled
                      \* RequestException
  reqs,               \* requests posted in this run, as <<tag, page>>
  mock,               \* the endpoint's answers, in request order
  served,             \* records the endpoint has handed out
  categorized,        \* dict category -> list of records
  trader_categories,  \* dict address -> [trader_name, categories]
  all_traders,        \* accumulator of crawl_traders
  page,               \* page counter of crawl_traders
  files,              \* content of the output files
  prev_files,         \* the files as the first run left them
  prev_pc             \* how the first run ended

vars ==
  << flow, run, pc, reqs, mock, served, categorized, trader_categories,
     all_traders, page, files, prev_files, prev_pc >>

Init ==
  /\ flow \in { "categorize", "crawl" }
  /\ run = 1
  /\ pc = IF flow = "categorize" THEN "fetch" ELSE "crawl"
  /\ reqs = << >>
  /\ mock = << >>
  /\ served = 0
  /\ categorized = EmptyDict
  /\ trader_categories = EmptyDict
  /\ all_traders = << >>
  /\ page = 1
  /\ files = [ f \in FileNames |-> NoFile ]
  /\ prev_files = [ f \in FileNames |-> NoFile ]
  /\ prev_pc = "none"

\* what the endpoint may answer to the next request: anything within the
\* record budget on the first run, the recorded answer on the re-run
Answers(records, maxlen) ==
  IF run = 1
    THEN { FailResponse }
           \cup { OkResponse(d) : d \in SeqsUpTo(records, maxlen) }
    ELSE { mock[Len(reqs) + 1] }

\* one iteration of `for category in CATEGORIES` (lines 59-63)
FetchCategory ==
  /\ flow = "categorize" /\ pc = "fetch"
  /\ \E resp \in Answers(CatRecords, MaxCatRecords - served) :
       LET i == Len(reqs) + 1
           category == CATEGORIES[i]
           r == fetch_traders_by_category(resp)
       IN /\ reqs' = Append(reqs, << category, 1 >>)
          /\ mock' = IF run = 1 THEN Append(mock, resp) ELSE mock
          /\ served' = IF run = 1 THEN served + Len(resp.data) ELSE served
          /\ IF r.raised
               THEN /\ pc' = "raised"
                    /\ UNCHANGED categorized
               ELSE /\ categorized' = DictSet(categorized, category, r.value)
                    /\ pc' = IF i = Len(CATEGORIES) THEN "save" ELSE "fetch"
  /\ UNCHANGED << flow, run, trader_categories, all_traders, page, files,
                  prev_files, prev_pc >>

\* lines 65-68
SaveCategorized ==
  /\ flow = "categorize" /\ pc = "save"
  /\ files' = [ files EXCEPT ![ByCategoryFile] =
                  WriteText(@, DumpCategorized(categorized)) ]
  /\ pc' = "summary"
  /\ UNCHANGED << flow, run, reqs, mock, served, categorized,
                  trader_categories, all_traders, page, prev_files, prev_pc >>

\* lines 70-80
PrintSummary ==
  /\ flow = "categorize" /\ pc = "summary"
  /\ pc' = IF SummaryRaises(categorized) THEN "crashed" ELSE "lookup"
  /\ UNCHANGED << flow, run, reqs, mock, served, categorized,
                  trader_categories, all_traders, page, files, prev_files,
                  prev_pc >>

\* lines 82-97
BuildTraderCategories ==
  /\ flow = "categorize" /\ pc = "lookup"
  /\ LET st == BuildLookup(categorized)
     IN /\ trader_categories' = st.tc
        /\ pc' = IF st.ok THEN "savelookup" ELSE "crashed"
  /\ UNCHANGED << flow, run, reqs, mock, served, categorized, all_traders,
                  page, files, prev_files, prev_pc >>

\* lines 99-105
SaveLookup ==
  /\ flow = "categorize" /\ pc = "savelookup"
  /\ files' = [ files EXCEPT ![LookupFile] =
                  WriteText(@, DumpLookup(trader_categories)) ]
  /\ pc' = "done"
  /\ UNCHANGED << flow, run, reqs, mock, served, categorized,
                  trader_categories, all_traders, page, prev_files, prev_pc >>

\* the script is started again against the same mocked endpoint; the files
\* of the first run are still on disk
Rerun ==
  /\ flow = "categorize" /\ run = 1
  /\ pc \in { "done", "crashed", "raised" }
  /\ run' = 2
  /\ prev_files' = files
  /\ prev_pc' = pc
  /\ pc' = "fetch"
  /\ reqs' = << >>
  /\ categorized' = EmptyDict
  /\ trader_categories' = EmptyDict
  /\ UNCHANGED << flow, mock, served, all_traders, page, files >>

\* one iteration of `while True` of crawl_traders (lines 32-68); the loop
\* is left to `return all_traders` (line 70)
CrawlPage ==
  /\ flow = "crawl" /\ pc = "crawl"
  /\ \E resp \in Answers(CrawlRecords,
                         Min(PageSize + 1, MaxCrawlRecords - served)) :
       LET st == CrawlStep(all_traders, page, resp)
       IN /\ reqs' = Append(reqs, << CrawlTag, page >>)
          /\ mock' = Append(mock, resp)
          /\ served' = served + Len(resp.data)
          /\ all_traders' = st.all
          /\ page' = st.page
          /\ pc' = IF st.raised THEN "raised"
                   ELSE IF st.stop THEN "crawled" ELSE "crawl"
  /\ UNCHANGED << flow, run, categorized, trader_categories, files,
                  prev_files, prev_pc >>

\* `if not traders: ... return` (lines 77-79)
MainNoTraders ==
  /\ flow = "crawl" /\ pc = "crawled"
  /\ all_traders = << >>
  /\ pc' = "done"
  /\ UNCHANGED << flow, run, reqs, mock, served, categorized,
                  trader_categories, all_traders, page, files, prev_files,
                  prev_pc >>

\* lines 81-88
MainSave ==
  /\ flow = "crawl" /\ pc = "crawled"
  /\ all_traders # << >>
  /\ files' = [ files EXCEPT ![TradersFile] =
                  WriteText(@, DumpList(all_traders)) ]
  /\ pc' = "top"
  /\ UNCHANGED << flow, run, reqs, mock, served, categorized,
                  trader_categories, all_traders, page, prev_files, prev_pc >>

\* lines 90-95
MainTop ==
  /\ flow = "crawl" /\ pc = "top"
  /\ pc' = IF TopRaises(all_traders) THEN "crashed" ELSE "done"
  /\ UNCHANGED << flow, run, reqs, mock, served, categorized,
                  trader_categories, all_traders, page, files, prev_files,
                  prev_pc >>

Next ==
  \/ FetchCategory
  \/ SaveCategorized
  \/ PrintSummary
  \/ BuildTraderCategories
  \/ SaveLookup
  \/ Rerun
  \/ CrawlPage
  \/ MainNoTraders
  \/ MainSave
  \/ MainTop

Spec == Init /\ [][Next]_vars

\* ------------------------------------------------- properties: helpers
\* concatenation of the data arrays of the first n answers
RECURSIVE ConcatPages(_, _)
ConcatPages(m, n) ==
  IF n = 0 THEN << >> ELSE ConcatPages(m, n - 1) \o m[n].data

RECURSIVE SumLens(_, _)
SumLens(m, n) == IF n = 0 THEN 0 ELSE SumLens(m, n - 1) + Len(m[n].data)

\* an answer that ends the crawl: a failure, an empty page or a short page
Stops(resp) == ~resp.ok \/ Len(resp.data) < PageSize

\* the crawl loop has been left
Returned == pc # "crawl"

\* the addresses of a list of records, each kept at its first occurrence
RECURSIVE FirstSeen(_, _)
FirstSeen(seen, traders) ==
  IF traders = << >> THEN seen
  ELSE FirstSeen(IF \E n \in 1..Len(seen) : seen[n] = Head(traders).trader
                   THEN seen ELSE Append(seen, Head(traders).trader),
                 Tail(traders))

\* all records of a dict of lists, in iteration order
RECURSIVE Flatten(_)
Flatten(cat) ==
  IF cat = << >> THEN << >> ELSE Head(cat)[2] \o Flatten(Tail(cat))

\* ---------------------------------------------------------------- C1
\* C1: in the Category Fetcher every category requested so far has an entry
\* in categorized, in list order; the entry is the data array its own
\* request returned, or the empty list when that request failed; and while
\* categories remain the loop goes on, whatever failed before.
C1_FailureIsolated ==
  flow = "categorize" =>
    /\ DictKeys(categorized) = SubSeq(CATEGORIES, 1, Len(reqs))
    /\ \A i \in 1..Len(reqs) :
         categorized[i][2] = IF mock[i].ok THEN mock[i].data ELSE << >>
    /\ Len(reqs) < Len(CATEGORIES) => pc = "fetch"

C1_Witness ==
  /\ flow = "categorize" /\ run = 1 /\ pc = "save"
  /\ ~mock[1].ok
  /\ mock[2].ok /\ mock[2].data # << >>
  /\ categorized[1][2] = << >>
  /\ categorized[2][2] = mock[2].data

\* ---------------------------------------------------------------- C2
\* C2: once the index loop has completed, trader_categories has exactly one
\* entry per distinct address of categorized, and the categories of an
\* address are exactly the categories whose list holds a record of it.
C2_IndexExact ==
  (flow = "categorize" /\ pc \in { "savelookup", "done" }) =>
    LET all == Flatten(categorized)
        addrs == { all[n].trader : n \in 1..Len(all) }
        keys == DictKeys(trader_categories)
    IN /\ { keys[n] : n \in 1..Len(keys) } = addrs
       /\ Len(keys) = Cardinality(addrs)
       /\ \A a \in addrs :
            LET cs == DictKeys(DictGet(trader_categories, a).categories)
            IN /\ { cs[n] : n \in 1..Len(cs) }
                    = { categorized[c][1] : c \in
                          { c \in 1..Len(categorized) :
                              \E j \in 1..Len(categorized[c][2]) :
                                categorized[c][2][j].trader = a } }
               /\ \A m, n \in 1..Len(cs) : cs[m] = cs[n] => m = n

C2_Witness ==
  /\ flow = "categorize" /\ pc = "savelookup"
  /\ Len(trader_categories) = 2
  /\ \E n \in 1..2 : Len(trader_categories[n][2].categories) = 2

\* ---------------------------------------------------------------- C3
\* C3: in crawl_traders no page is requested after an empty or short page;
\* an empty page leaves the loop and adds nothing; a short page leaves the
\* loop with its records appended; a page of exactly page_size records keeps
\* the loop going with the next page number.
C3_StopConditions ==
  flow = "crawl" =>
    LET n == Len(reqs)
    IN /\ \A i \in 1..n :
            (i < n /\ mock[i].ok) => Len(mock[i].data) >= PageSize
       /\ (n >= 1 /\ mock[n].ok /\ mock[n].data = << >>) =>
            /\ Returned
            /\ all_traders = ConcatPages(mock, n - 1)
       /\ (n >= 1 /\ mock[n].ok /\ mock[n].data # << >>
             /\ Len(mock[n].data) < PageSize) =>
            /\ Returned
            /\ all_traders = ConcatPages(mock, n - 1) \o mock[n].data
       /\ (n >= 1 /\ mock[n].ok /\ Len(mock[n].data) = PageSize) =>
            /\ pc = "crawl"
            /\ page = n + 1

C3_Witness ==
  /\ flow = "crawl" /\ pc = "crawled"
  /\ Len(reqs) = 2
  /\ mock[1].ok /\ Len(mock[1].data) = PageSize
  /\ mock[2].ok /\ Len(mock[2].data) = PageSize - 1
  /\ Len(all_traders) = 2 * PageSize - 1

\* ---------------------------------------------------------------- C4
\* C4: when no request failed, crawl_traders returns the concatenation, in
\* page order, of the data arrays of all pages it requested, so its length
\* is the sum of their lengths.
C4_Concatenation ==
  (flow = "crawl" /\ Returned /\ \A i \in 1..Len(mock) : mock[i].ok) =>
    /\ all_traders = ConcatPages(mock, Len(reqs))
    /\ Len(all_traders) = SumLens(mock, Len(reqs))
    /\ \A i \in 1..Len(reqs) : reqs[i][2] = i

C4_Witness ==
  /\ flow = "crawl" /\ pc = "crawled"
  /\ Len(reqs) = 3
  /\ \A i \in 1..3 : mock[i].ok
  /\ Len(mock[1].data) = PageSize /\ Len(mock[2].data) = PageSize
  /\ Len(mock[3].data) \in 1..(PageSize - 1)
  /\ mock[1].data # mock[2].data
  /\ Len(all_traders) = 2 * PageSize + Len(mock[3].data)

\* ---------------------------------------------------------------- C5
\* C5: when the request for page n fails, crawl_traders returns without
\* raising and without another request, and its result is the records of
\* pages 1..n-1.
C5_PartialOnError ==
  (flow = "crawl" /\ Len(reqs) >= 1 /\ ~mock[Len(reqs)].ok) =>
    /\ pc \in { "crawled", "done", "top", "crashed" }
    /\ page = Len(reqs)
    /\ all_traders = ConcatPages(mock, Len(reqs) - 1)
    /\ \A i \in 1..(Len(reqs) - 1) : mock[i].ok

C5_Witness ==
  /\ flow = "crawl" /\ pc = "crawled"
  /\ Len(reqs) = 3 /\ ~mock[3].ok
  /\ Len(all_traders) >= 2 * PageSize

\* ---------------------------------------------------------------- C6
\* C6: a re-run of the Category Fetcher against the same answers ends the way
\* the first run ended and leaves the same text in every file; the keys of
\* categorized are the categories in list order and the keys of
\* trader_categories are the addresses in first-seen order.
C6_RerunIdentical ==
  flow = "categorize" =>
    /\ (run = 2 /\ pc \in { "done", "crashed", "raised" }) =>
         /\ pc = prev_pc
         /\ files = prev_files
    /\ pc \notin { "fetch", "raised" } => DictKeys(categorized) = CATEGORIES
    /\ pc \in { "savelookup", "done" } =>
         DictKeys(trader_categories) = FirstSeen(<< >>, Flatten(categorized))

C6_Witness ==
  /\ flow = "categorize" /\ run = 2 /\ pc = "done"
  /\ DictKeys(trader_categories) = << "0xb2", "0xa1" >>
  /\ files[LookupFile] # NoFile
  /\ files[LookupFile] = prev_files[LookupFile]
  /\ files[ByCategoryFile] = prev_files[ByCategoryFile]

\* ---------------------------------------------------------------- C7
\* C7 as stated: a run that ends normally has written its snapshot, the
\* crawler traders.json whatever the server returned.
C7_AlwaysWritten ==
  pc = "done" =>
    /\ flow = "categorize" =>
         files[ByCategoryFile] # NoFile /\ files[LookupFile] # NoFile
    /\ flow = "crawl" => files[TradersFile] # NoFile

\* C7 amended: a Category Fetcher run that ends normally has written both
\* files from its final categorized and trader_categories; a crawl that ends
\* normally has written traders.json from its result when it collected at
\* least one record, and has written no file when it collected none.
C7_WrittenUnlessEmpty ==
  pc = "done" =>
    /\ flow = "categorize" =>
         /\ files[ByCategoryFile] = DumpCategorized(categorized)
         /\ files[LookupFile] = DumpLookup(trader_categories)
    /\ (flow = "crawl" /\ all_traders # << >>) =>
         files[TradersFile] = DumpList(all_traders)
    /\ (flow = "crawl" /\ all_traders = << >>) =>
         \A f \in FileNames : files[f] = NoFile

C7_Witness ==
  /\ flow = "crawl" /\ pc = "done"
  /\ Len(all_traders) > PageSize
  /\ files[TradersFile] = DumpList(all_traders)

\* ---------------------------------------------------------------- C8
\* some record of some answer lacks an expected key
SomeRecordMalformed ==
  \E i \in 1..Len(mock) : \E j \in 1..Len(mock[i].data) :
    ~HasAll(mock[i].data[j], ExpectedKeys)

\* C8 as stated: a record that lacks an expected key, at any position of any
\* answer, keeps the run from ending normally.
C8_AnyMalformedFails == SomeRecordMalformed => pc # "done"

\* a record among the first TopN of the crawl result lacks an expected key
CrawlFatal ==
  \E n \in 1..Min(TopN, Len(all_traders)) :
    ~HasAll(all_traders[n], ExpectedKeys)

\* a record of categorized lacks trader, overall_gain, win_rate or
\* total_positions, or lacks trader_name while being the first record of its
\* category or the first record of its address in iteration order
CategorizeFatal ==
  LET all == Flatten(categorized)
  IN \/ \E n \in 1..Len(all) : ~HasAll(all[n], { "trader" } \cup EntryKeys)
     \/ \E c \in 1..Len(categorized) :
          /\ categorized[c][2] # << >>
          /\ ~Has(categorized[c][2][1], "trader_name")
     \/ \E n \in 1..Len(all) :
          /\ Has(all[n], "trader") /\ ~Has(all[n], "trader_name")
          /\ \A m \in 1..(n - 1) :
               Has(all[m], "trader") => all[m].trader # all[n].trader

\* C8 amended: the crawl ends in an unhandled failure when one of the first
\* five records of its result lacks an expected key, and not because of a
\* later record; the Category Fetcher ends in an unhandled failure when a
\* record lacks trader, overall_gain, win_rate or total_positions, or lacks
\* trader_name as the first record of its category or of its address, and
\* not because trader_name is missing elsewhere.
C8_MalformedFailsWhereRead ==
  /\ (flow = "crawl" /\ pc \in { "done", "crashed" }) =>
       (pc = "crashed" <=> CrawlFatal)
  /\ (flow = "categorize" /\ pc \in { "done", "crashed" }) =>
       (pc = "crashed" <=> CategorizeFatal)
  /\ pc # "raised"

C8_Witness ==
  /\ flow = "crawl" /\ pc = "done"
  /\ Len(all_traders) > TopN
  /\ ~HasAll(all_traders[TopN + 1], ExpectedKeys)

\* ---------------------------------------------------------------- C9
\* C9: crawl_traders has returned exactly when the last answer was a
\* failure, an empty page or a short page; every earlier answer was a page
\* of at least page_size records, and while such pages keep coming the loop
\* is still running with the page counter one past the requests made.
C9_ReturnsOnlyOnStop ==
  flow = "crawl" =>
    LET n == Len(reqs)
    IN /\ Returned <=> (n >= 1 /\ Stops(mock[n]))
       /\ \A i \in 1..(n - 1) : ~Stops(mock[i])
       /\ pc = "crawl" => page = n + 1

C9_Witness ==
  /\ flow = "crawl" /\ pc = "crawl"
  /\ page >= 3
  /\ \A i \in 1..Len(mock) : mock[i].ok /\ Len(mock[i].data) >= PageSize

\* ---------------------------------------------------------------- C10
\* C10: the Category Fetcher posts one request per category, page 1, in list
\* order, all of them once the loop is over; crawl_traders posts pages
\* 1, 2, 3, ... of the one tag, each once; a failed request is not repeated.
C10_NoRetry ==
  /\ flow = "categorize" =>
       /\ Len(reqs) <= Len(CATEGORIES)
       /\ \A i \in 1..Len(reqs) : reqs[i] = << CATEGORIES[i], 1 >>
       /\ pc # "fetch" => Len(reqs) = Len(CATEGORIES)
  /\ flow = "crawl" =>
       /\ \A i \in 1..Len(reqs) : reqs[i] = << CrawlTag, i >>
       /\ \A i \in 1..Len(reqs) : ~mock[i].ok => i = Len(reqs)

C10_Witness ==
  /\ flow = "categorize" /\ pc = "done" /\ run = 1
  /\ ~mock[2].ok
  /\ Len(reqs) = Len(CATEGORIES)

====
